---- MODULE Spec2Model ----
(***************************************************************************)
(* A model of shm_ipc_lock: an inter-process spin lock on one flag byte   *)
(* of a memory-mapped shared-memory file.  Two classes are modelled:       *)
(*   IPCSpinLock  (src/ipc_lock.py)               one-byte region          *)
(*   ShmLock      (src/src/shm_ipc_lock/ipc_lock.py)  flag at an offset    *)
(* Time is an integer number of microseconds; a process's clock advances   *)
(* only by the durations it passes to time.sleep.                          *)
(***************************************************************************)
EXTENDS Integers, Sequences, FiniteSets, TLC

\* ------------------------------------------------------------ bounds
NumProcs == 3
MaxOffset == 1
ClockCap == 40000

\* ------------------------------------------------- program constants
InitialBackoff == 10
MaxBackoff == 10000

Procs == 1..NumProcs
Offsets == 0..MaxOffset
Kinds == {"ShmLock", "IPCSpinLock"}

\* A timeout is <<>> (None) or <<t>> (t microseconds).
None == <<>>
Given(t) == t # None
Truthy(t) == t # None /\ t[1] # 0

Min(a, b) == IF a < b THEN a ELSE b

VARIABLES
  exists,     \* the backing file exists
  len,        \* its length (st_size)
  mem,        \* the bytes of its first page, shared by every mapping
  pid,        \* os.getpid() of each process
  kind,       \* the class each process constructs
  offset,     \* self.offset
  create,     \* the create argument
  pc,         \* where each process is
  cur,        \* the st_size its fstat returned
  err,        \* the exception its constructor raised
  creator,    \* its os.open created the file
  mmOpen,     \* self.mm is an open mmap
  exports,    \* buffer exports of self.mm held by self.ptr
  timeout,    \* acquire's timeout argument
  elapsed,    \* time.time() - start
  backoff,    \* acquire's backoff variable
  slept,      \* the duration of the last time.sleep of the call
  sleptAt,    \* the value of backoff when it was made
  last,       \* the method of the handle it called last
  ret,        \* what that call returned ("none": nothing, or not yet)
  again,      \* that call is a close() made right after a close()
  holds       \* between a True-returning acquire and its own release

vars == <<exists, len, mem, pid, kind, offset, create, pc, cur, err, creator,
          mmOpen, exports, timeout, elapsed, backoff, slept, sleptAt, last,
          ret, again, holds>>

region == <<exists, len, mem>>
ctorVars == <<kind, offset, create, cur, err, creator>>
mapVars == <<mmOpen, exports>>
acqVars == <<timeout, elapsed, backoff, slept, sleptAt>>
callVars == <<last, ret, again>>

\* ------------------------------------------------------- pure helpers

\* cas_u8: __atomic_compare_exchange_n(ptr, &expected, desired, ...)
CasU8_StoresExpectedOnFailure(v, expected, desired) ==
  IF v = expected THEN [ok |-> TRUE, val |-> desired]
                  ELSE [ok |-> FALSE, val |-> expected]
CasU8_NoCompare(v, expected, desired) == [ok |-> TRUE, val |-> desired]
CasU8(v, expected, desired) ==
  IF v = expected THEN [ok |-> TRUE, val |-> desired]
                  ELSE [ok |-> FALSE, val |-> v]

\* store_u8: __atomic_store_n(ptr, value, ...)
StoreU8_Decrement(v, value) == (v + 255) % 256
StoreU8(v, value) == value

\* self.size
Size(k, off) == IF k = "IPCSpinLock" THEN 1 ELSE off + 1

\* os.ftruncate(fd, n): bytes below both lengths are kept, the rest read zero
Truncated(n) == [i \in Offsets |-> IF i < Min(len, n) THEN mem[i] ELSE 0]

\* backoff * (0.5 + 0.5 * os.getpid() % 2) in IPCSpinLock, backoff in ShmLock;
\* 0.5 * pid % 2 is (0.5 * pid) % 2, so the factor is (1 + pid % 4) / 2
JitterHalves(p) == IF kind[p] = "IPCSpinLock" THEN 1 + (pid[p] % 4) ELSE 2
SleepFor(p) == (backoff[p] * JitterHalves(p)) \div 2

\* the timeout test of the acquire loop
TimedOut_NoneAsZero(p) ==
  elapsed[p] >= (IF timeout[p] = None THEN 0 ELSE timeout[p][1])
TimedOut(p) ==
  IF kind[p] = "ShmLock"
    THEN Truthy(timeout[p]) /\ elapsed[p] >= timeout[p][1]
    ELSE Given(timeout[p]) /\ elapsed[p] >= timeout[p][1]


\* self.ptr: ShmLock takes from_buffer(self.mm, self.offset), IPCSpinLock
\* from_buffer(self.mm) of its one-byte region
Ptr_RegionStart(p) == 0
Ptr(p) == IF kind[p] = "ShmLock" THEN offset[p] ELSE 0

\* self.mm.read(1) != b'\x00'
NonZero_Negated(v) == v = 0
NonZero(v) == v # 0

\* the exception self.mm.close() raises
MmClose(p) == IF exports[p] > 0 THEN "BufferError" ELSE "none"

\* try: ... except Exception: pass
Swallowed_Reraised(e) == e
Swallowed(e) == "none"
\* ------------------------------------------------------------- Init

InitLocals ==
  /\ cur = [p \in Procs |-> 0]
  /\ err = [p \in Procs |-> "none"]
  /\ creator = [p \in Procs |-> FALSE]
  /\ timeout = [p \in Procs |-> None]
  /\ elapsed = [p \in Procs |-> 0]
  /\ backoff = [p \in Procs |-> InitialBackoff]
  /\ slept = [p \in Procs |-> 0]
  /\ sleptAt = [p \in Procs |-> 0]
  /\ last = [p \in Procs |-> "none"]
  /\ ret = [p \in Procs |-> "none"]
  /\ again = [p \in Procs |-> FALSE]
  /\ holds = [p \in Procs |-> FALSE]

\* The processes of S hold constructed handles of class k at offset off;
\* the others have not called a constructor yet.
Handles(S, k, off) ==
  /\ kind = [p \in Procs |-> IF p \in S THEN k ELSE "none"]
  /\ offset = [p \in Procs |-> IF p \in S THEN off ELSE 0]
  /\ create = [p \in Procs |-> TRUE]
  /\ pc = [p \in Procs |-> IF p \in S THEN "ready" ELSE "new"]
  /\ mmOpen = [p \in Procs |-> p \in S]
  /\ exports = [p \in Procs |-> IF p \in S THEN 1 ELSE 0]

\* Every process holds a constructed handle of one class on a one-byte
\* region whose flag is 0.
Constructed ==
  /\ InitLocals
  /\ exists = TRUE
  /\ len = 1
  /\ mem = [i \in Offsets |-> 0]
  /\ \E k \in Kinds : Handles(Procs, k, 0)

InitHandles ==
  /\ Constructed
  /\ pid = [p \in Procs |-> p]

\* The same, the processes having any consecutive process ids.
PidBases == 0..3
InitAnyPid ==
  /\ Constructed
  /\ \E b \in PidBases : pid = [p \in Procs |-> b + p]

\* ------------------------------------------------------- constructors

\* st.st_size < self.size
Insufficient_OffByOne(p) == len < offset[p]
Insufficient(p) == len < Size(kind[p], offset[p])

\* __init__ up to os.open(self.shm_path, flags, 0o600) of _ensure_shm_file;
\* IPCSpinLock always passes O_CREAT, ShmLock only with create
EnsureOpen(p, k, off, cr) ==
  /\ pc[p] = "new"
  /\ kind' = [kind EXCEPT ![p] = k]
  /\ offset' = [offset EXCEPT ![p] = off]
  /\ create' = [create EXCEPT ![p] = cr]
  /\ IF ~exists /\ ~cr
       THEN /\ pc' = [pc EXCEPT ![p] = "failed"]
            /\ err' = [err EXCEPT ![p] = "FileNotFoundError"]
            /\ UNCHANGED <<exists, len, creator>>
       ELSE /\ pc' = [pc EXCEPT ![p] = "fstat"]
            /\ exists' = TRUE
            /\ len' = IF exists THEN len ELSE 0
            /\ creator' = [creator EXCEPT ![p] = ~exists]
            /\ UNCHANGED err
  /\ UNCHANGED <<mem, pid, cur, mapVars, acqVars, callVars, holds>>

\* os.fstat(fd) and the size test; ShmLock raises ValueError without create
EnsureFstat(p) ==
  /\ pc[p] = "fstat"
  /\ cur' = [cur EXCEPT ![p] = len]
  /\ IF Insufficient(p)
       THEN IF kind[p] = "ShmLock" /\ ~create[p]
              THEN /\ pc' = [pc EXCEPT ![p] = "failed"]
                   /\ err' = [err EXCEPT ![p] = "ValueError"]
              ELSE /\ pc' = [pc EXCEPT ![p] = "trunc"]
                   /\ UNCHANGED err
       ELSE /\ pc' = [pc EXCEPT ![p] = "map"]
            /\ UNCHANGED err
  /\ UNCHANGED <<region, pid, kind, offset, create, creator, mapVars, acqVars,
                 callVars, holds>>

\* os.ftruncate(fd, self.size)
EnsureTruncate(p) ==
  /\ pc[p] = "trunc"
  /\ len' = Size(kind[p], offset[p])
  /\ mem' = Truncated(Size(kind[p], offset[p]))
  /\ pc' = [pc EXCEPT ![p] = IF kind[p] = "IPCSpinLock" THEN "write" ELSE "map"]
  /\ UNCHANGED <<exists, pid, ctorVars, mapVars, acqVars, callVars, holds>>

\* os.write(fd, b'\x00') at file position 0 (IPCSpinLock only)
EnsureWrite(p) ==
  /\ pc[p] = "write"
  /\ mem' = [mem EXCEPT ![0] = 0]
  /\ len' = IF len < 1 THEN 1 ELSE len
  /\ pc' = [pc EXCEPT ![p] = "map"]
  /\ UNCHANGED <<exists, pid, ctorVars, mapVars, acqVars, callVars, holds>>

\* _open_mmap and the rest of __init__: mmap.mmap(fd, self.size, ...) raises
\* ValueError when the file is shorter than self.size; from_buffer(self.mm)
\* leaves a buffer export of the mmap in self.ptr
OpenMmap(p) ==
  /\ pc[p] = "map"
  /\ IF Size(kind[p], offset[p]) <= len
       THEN /\ pc' = [pc EXCEPT ![p] = "ready"]
            /\ mmOpen' = [mmOpen EXCEPT ![p] = TRUE]
            /\ exports' = [exports EXCEPT ![p] = 1]
            /\ UNCHANGED err
       ELSE /\ pc' = [pc EXCEPT ![p] = "failed"]
            /\ err' = [err EXCEPT ![p] = "ValueError(mmap)"]
            /\ UNCHANGED mapVars
  /\ UNCHANGED <<region, pid, kind, offset, create, cur, creator, acqVars,
                 callVars, holds>>

\* ------------------------------------------------------------ acquire

\* acquire(timeout): start = time.time(); backoff = 0.00001
AcqCall(p, t) ==
  /\ pc[p] = "ready"
  /\ pc' = [pc EXCEPT ![p] = "cas"]
  /\ timeout' = [timeout EXCEPT ![p] = t]
  /\ last' = [last EXCEPT ![p] = "acquire"]
  /\ again' = [again EXCEPT ![p] = FALSE]
  /\ ret' = [ret EXCEPT ![p] = "none"]
  /\ UNCHANGED <<region, pid, ctorVars, mapVars, elapsed, backoff, slept,
                 sleptAt, holds>>

\* acquire returns: its locals start and backoff are gone
Returned(p) ==
  /\ elapsed' = [elapsed EXCEPT ![p] = 0]
  /\ backoff' = [backoff EXCEPT ![p] = InitialBackoff]
  /\ slept' = [slept EXCEPT ![p] = 0]
  /\ sleptAt' = [sleptAt EXCEPT ![p] = 0]

\* (the loop with the timeout test placed before the compare-and-swap)
Cas_TimeoutFirst(p) ==
  /\ pc[p] = "cas"
  /\ IF TimedOut(p)
       THEN /\ pc' = [pc EXCEPT ![p] = "ready"]
            /\ ret' = [ret EXCEPT ![p] = "false"]
            /\ Returned(p)
            /\ UNCHANGED <<mem, holds>>
       ELSE LET r == CasU8(mem[Ptr(p)], 0, 1) IN
              /\ mem' = [mem EXCEPT ![Ptr(p)] = r.val]
              /\ IF r.ok
                   THEN /\ pc' = [pc EXCEPT ![p] = "ready"]
                        /\ ret' = [ret EXCEPT ![p] = "true"]
                        /\ holds' = [holds EXCEPT ![p] = TRUE]
                        /\ Returned(p)
                   ELSE /\ pc' = [pc EXCEPT ![p] = "chk"]
                        /\ UNCHANGED <<ret, holds, elapsed, backoff, slept,
                                       sleptAt>>
  /\ UNCHANGED <<exists, len, pid, ctorVars, mapVars, timeout, last, again>>

\* res = cas_u8(ptr, 0, 1); if res: return True
Cas(p) ==
  /\ pc[p] = "cas"
  /\ LET r == CasU8(mem[Ptr(p)], 0, 1) IN
       /\ mem' = [mem EXCEPT ![Ptr(p)] = r.val]
       /\ IF r.ok
            THEN /\ pc' = [pc EXCEPT ![p] = "ready"]
                 /\ ret' = [ret EXCEPT ![p] = "true"]
                 /\ holds' = [holds EXCEPT ![p] = TRUE]
                 /\ Returned(p)
            ELSE /\ pc' = [pc EXCEPT ![p] = "chk"]
                 /\ UNCHANGED <<ret, holds, elapsed, backoff, slept, sleptAt>>
  /\ UNCHANGED <<exists, len, pid, ctorVars, mapVars, timeout, last, again>>

\* the timeout test; time.sleep(...); backoff = min(max_backoff, backoff * 2)
Chk(p) ==
  /\ pc[p] = "chk"
  /\ IF TimedOut(p)
       THEN /\ pc' = [pc EXCEPT ![p] = "ready"]
            /\ ret' = [ret EXCEPT ![p] = "false"]
            /\ Returned(p)
       ELSE /\ pc' = [pc EXCEPT ![p] = "cas"]
            /\ elapsed' = [elapsed EXCEPT
                             ![p] = Min(elapsed[p] + SleepFor(p), ClockCap)]
            /\ slept' = [slept EXCEPT ![p] = SleepFor(p)]
            /\ sleptAt' = [sleptAt EXCEPT ![p] = backoff[p]]
            /\ backoff' = [backoff EXCEPT
                             ![p] = Min(MaxBackoff, backoff[p] * 2)]
            /\ UNCHANGED ret
  /\ UNCHANGED <<region, pid, ctorVars, mapVars, timeout, last, again,
                 holds>>

\* ------------------------------------------- release, is_locked, close

\* release() is entered
RelCall(p) ==
  /\ pc[p] = "ready"
  /\ pc' = [pc EXCEPT ![p] = "rel"]
  /\ last' = [last EXCEPT ![p] = "release"]
  /\ again' = [again EXCEPT ![p] = FALSE]
  /\ ret' = [ret EXCEPT ![p] = "none"]
  /\ UNCHANGED <<region, pid, ctorVars, mapVars, acqVars, holds>>

\* store_u8(ptr, 0), and release() returns
RelStore_OwnerOnly(p) ==
  /\ pc[p] = "rel"
  /\ mem' = [mem EXCEPT ![Ptr(p)] = IF holds[p] THEN 0 ELSE @]
  /\ holds' = [holds EXCEPT ![p] = FALSE]
  /\ pc' = [pc EXCEPT ![p] = "ready"]
  /\ UNCHANGED <<exists, len, pid, ctorVars, mapVars, acqVars, callVars>>
RelStore(p) ==
  /\ pc[p] = "rel"
  /\ mem' = [mem EXCEPT ![Ptr(p)] = StoreU8(mem[Ptr(p)], 0)]
  /\ holds' = [holds EXCEPT ![p] = FALSE]
  /\ pc' = [pc EXCEPT ![p] = "ready"]
  /\ UNCHANGED <<exists, len, pid, ctorVars, mapVars, acqVars, callVars>>

\* is_locked(): self.mm.seek(self.offset); self.mm.read(1) != b'\x00'
\* (a closed mmap raises ValueError)
IsLocked(p) ==
  /\ pc[p] = "ready"
  /\ last' = [last EXCEPT ![p] = "is_locked"]
  /\ again' = [again EXCEPT ![p] = FALSE]
  /\ ret' = [ret EXCEPT ![p] = IF ~mmOpen[p] THEN "ValueError"
                               ELSE IF NonZero(mem[offset[p]]) THEN "true"
                               ELSE "false"]
  /\ UNCHANGED <<region, pid, ctorVars, mapVars, acqVars, pc, holds>>

\* close(): self.mm.close() raises BufferError while exports of the mmap
\* exist and leaves it open; `except Exception: pass` swallows the error
Close(p) ==
  /\ pc[p] = "ready"
  /\ last' = [last EXCEPT ![p] = "close"]
  /\ again' = [again EXCEPT ![p] = (last[p] = "close")]
  /\ ret' = [ret EXCEPT ![p] = Swallowed(MmClose(p))]
  /\ mmOpen' = [mmOpen EXCEPT ![p] = IF MmClose(p) = "none" THEN FALSE ELSE @]
  /\ UNCHANGED <<region, pid, ctorVars, exports, acqVars, pc, holds>>

\* the process exits; the kernel drops its mapping, the file stays
Terminate(p) ==
  /\ pc[p] = "ready"
  /\ pc' = [pc EXCEPT ![p] = "dead"]
  /\ mmOpen' = [mmOpen EXCEPT ![p] = FALSE]
  /\ exports' = [exports EXCEPT ![p] = 0]
  /\ UNCHANGED <<region, pid, ctorVars, acqVars, callVars, holds>>

Waiting(p) == pc[p] \in {"cas", "chk"}
Holders == {p \in Procs : holds[p]}
AcquireStep(p) == Cas(p) \/ Chk(p)
ReleaseStep(p) == (holds[p] /\ RelCall(p)) \/ RelStore(p)

\* ---------------------------------------------------------------------
\* Spec: N processes, each with a constructed handle on the same flag,
\* cycle through acquire and (after a True return) release.
\* ---------------------------------------------------------------------
CycleTimeouts == {None, <<5>>}

Next ==
  \/ \E p \in Procs : \E t \in CycleTimeouts : ~holds[p] /\ AcqCall(p, t)
  \/ \E p \in Procs : Cas(p)
  \/ \E p \in Procs : Chk(p)
  \/ \E p \in Procs : holds[p] /\ RelCall(p)
  \/ \E p \in Procs : RelStore(p)

Spec == InitHandles /\ [][Next]_vars

\* C1: at most one process is between a True-returning acquire() and its
\* own release(), in every reachable state of the acquire/release cycles.
C1_MutualExclusion == Cardinality(Holders) <= 1

\* A third process is inside acquire while one holds the flag that another
\* acquired and released before.
C1_Witness ==
  \E p \in Procs : \E q \in Procs \ {p} : \E r \in Procs \ {p, q} :
    /\ holds[p] /\ ret[p] = "true"
    /\ last[q] = "release" /\ pc[q] = "ready" /\ ~holds[q]
    /\ Waiting(r)

\* ---------------------------------------------------------------------
\* FairSpec: the same cycles; a process inside acquire keeps running and
\* a holder calls release.
\* ---------------------------------------------------------------------
FairSpec ==
  /\ Spec
  /\ \A p \in Procs : WF_vars(AcquireStep(p)) /\ WF_vars(ReleaseStep(p))

Free == mem[0] = 0 /\ Holders = {}

\* C3: once the holder's release has cleared the flag while some process is
\* inside acquire(timeout=None), eventually an acquire call returns True
\* (some process becomes the holder).
C3_LivenessAfterRelease ==
  \A w \in Procs :
    (Waiting(w) /\ timeout[w] = None /\ Free) ~> (Holders # {})

\* A process that called acquire(None) holds the flag that another process
\* acquired and released before.
C3_Witness ==
  \E p \in Procs : \E q \in Procs \ {p} :
    /\ holds[p] /\ timeout[p] = None /\ ret[p] = "true"
    /\ last[q] = "release" /\ pc[q] = "ready" /\ ~holds[q]

\* ---------------------------------------------------------------------
\* FairHeld: no process ever calls release, so the flag stays 1 from the
\* first acquisition on; the others call acquire with a timeout.
\* ---------------------------------------------------------------------
HeldTimeouts == {<<0>>, <<5>>, <<15000>>}

NextHeld ==
  \/ \E p \in Procs : \E t \in HeldTimeouts : ~holds[p] /\ AcqCall(p, t)
  \/ \E p \in Procs : Cas(p)
  \/ \E p \in Procs : Chk(p)

FairHeld ==
  /\ InitAnyPid /\ [][NextHeld]_vars
  /\ \A p \in Procs : WF_vars(AcquireStep(p))

\* C4: an acquire(T) call with a timeout given (T = 0 included), made while
\* the flag stays 1, terminates and returns False.
C4_TimeoutTerminates ==
  \A p \in Procs :
    (Waiting(p) /\ Given(timeout[p]) /\ mem[0] = 1 /\ ~holds[p])
      ~> (pc[p] = "ready" /\ ret[p] = "false")

\* C5: an acquire(T), T > 0, that returns False does so at an elapsed time
\* E with T <= E <= T + the backoff in effect for its last sleep, which is
\* at most 10 ms.
C5_TimeoutBound ==
  [][\A p \in Procs :
       (pc[p] = "chk" /\ pc'[p] = "ready" /\ timeout[p][1] > 0)
         => /\ timeout[p][1] <= elapsed[p]
            /\ elapsed[p] - timeout[p][1] <= sleptAt[p]
            /\ sleptAt[p] <= MaxBackoff]_vars

\* ---------------------------------------------------------------------
\* SpecIpc: the workers of src/ipc_lock.py: each constructs an IPCSpinLock
\* on the same name, the region being absent at first, calls
\* acquire(timeout) and, after a True return, release.
\* ---------------------------------------------------------------------
WorkerTimeouts == {<<5>>}

InitAbsent ==
  /\ InitLocals
  /\ pid = [p \in Procs |-> p]
  /\ exists = FALSE
  /\ len = 0
  /\ mem = [i \in Offsets |-> 0]
  /\ Handles({}, "none", 0)

NextIpc ==
  \/ \E p \in Procs : EnsureOpen(p, "IPCSpinLock", 0, TRUE)
  \/ \E p \in Procs : EnsureFstat(p)
  \/ \E p \in Procs : EnsureTruncate(p)
  \/ \E p \in Procs : EnsureWrite(p)
  \/ \E p \in Procs : OpenMmap(p)
  \/ \E p \in Procs : \E t \in WorkerTimeouts : ~holds[p] /\ AcqCall(p, t)
  \/ \E p \in Procs : Cas(p)
  \/ \E p \in Procs : Chk(p)
  \/ \E p \in Procs : holds[p] /\ RelCall(p)
  \/ \E p \in Procs : RelStore(p)

SpecIpc == InitAbsent /\ [][NextIpc]_vars

\* C2: the flag goes from 1 to 0 only by the release() store of the current
\* holder, so no step of a handle construction resets it and a process that
\* has acquired stays the sole holder.
C2_FlagClearedOnlyByHolder ==
  /\ [][(mem[0] = 1 /\ mem'[0] = 0)
          => \E p \in Procs : holds[p] /\ pc[p] = "rel" /\ pc'[p] = "ready"]_vars
  /\ [](Cardinality(Holders) <= 1)

\* ---------------------------------------------------------------------
\* SpecShm: processes construct ShmLock handles on one path, with any
\* offset and either value of create, the region being absent or of any
\* length at first (all zero, as an external provisioning step leaves it),
\* and then call acquire.
\* ---------------------------------------------------------------------
NumCtorProcs == 2
CtorProcs == 1..NumCtorProcs

InitShm ==
  /\ InitLocals
  /\ pid = [p \in Procs |-> p]
  /\ exists \in BOOLEAN
  /\ len \in 0..(MaxOffset + 1)
  /\ ~exists => len = 0
  /\ mem = [i \in Offsets |-> 0]
  /\ Handles({}, "none", 0)

NextShm ==
  \/ \E p \in CtorProcs : \E off \in Offsets : \E cr \in BOOLEAN :
       EnsureOpen(p, "ShmLock", off, cr)
  \/ \E p \in CtorProcs : EnsureFstat(p)
  \/ \E p \in CtorProcs : EnsureTruncate(p)
  \/ \E p \in CtorProcs : OpenMmap(p)
  \/ \E p \in CtorProcs : \E t \in WorkerTimeouts : ~holds[p] /\ AcqCall(p, t)
  \/ \E p \in CtorProcs : Cas(p)
  \/ \E p \in CtorProcs : Chk(p)

SpecShm == InitShm /\ [][NextShm]_vars

\* C6: ShmLock(path, offset, create=False) on an existing region shorter than
\* offset + 1 raises ValueError, yields no handle and no mapping, and its
\* steps leave the region's length and bytes unchanged.
C6_InsufficientSize ==
  /\ [][\A p \in Procs :
          /\ (pc[p] = "new" /\ pc'[p] # "new" /\ ~create'[p] /\ exists)
               => (pc'[p] = "fstat" /\ region' = region)
          /\ (pc[p] = "fstat" /\ pc'[p] # "fstat" /\ ~create[p]
                /\ len < offset[p] + 1)
               => /\ pc'[p] = "failed" /\ err'[p] = "ValueError"
                  /\ region' = region]_vars
  /\ [](\A p \in Procs :
          pc[p] = "failed" => (~mmOpen[p] /\ exports[p] = 0 /\ ~holds[p]
                               /\ ~ENABLED (NextShm /\ pc'[p] # "failed")))

C6_Witness ==
  \E p \in Procs :
    /\ pc[p] = "failed" /\ err[p] = "ValueError"
    /\ kind[p] = "ShmLock" /\ ~create[p]
    /\ exists /\ cur[p] < offset[p] + 1 /\ len = cur[p]

\* q has not changed the region (it has not passed a truncate)
Untouched(q) ==
  \/ pc[q] \in {"new", "fstat", "trunc"}
  \/ pc[q] = "failed" /\ err[q] \in {"FileNotFoundError", "ValueError"}

\* C7: ShmLock(path, offset, create=False) with no backing object raises and
\* creates nothing; with create=True the object is created, and once its
\* _ensure_shm_file is done (no other process having changed the region) it
\* has length offset + 1 and only zero bytes: the flag starts at 0.
C7_NotFound ==
  /\ [][\A p \in Procs :
          (pc[p] = "new" /\ pc'[p] # "new" /\ ~create'[p] /\ ~exists)
            => /\ pc'[p] = "failed" /\ err'[p] = "FileNotFoundError"
               /\ ~exists' /\ region' = region]_vars
  /\ [](\A p \in Procs :
          (creator[p] /\ pc[p] = "map"
             /\ \A q \in Procs \ {p} : Untouched(q))
            => /\ exists /\ create[p]
               /\ len = offset[p] + 1
               /\ \A i \in Offsets : mem[i] = 0)

C7_Witness ==
  \E p \in Procs : \E q \in Procs \ {p} :
    /\ pc[p] = "failed" /\ err[p] = "FileNotFoundError" /\ ~create[p]
    /\ creator[q] /\ pc[q] = "map" /\ offset[q] = MaxOffset
    /\ len = MaxOffset + 1

\* ---------------------------------------------------------------------
\* SpecAny: N processes with constructed handles on the same flag call
\* acquire, release, is_locked and close in any order, release by a process
\* that does not hold the flag included.
\* ---------------------------------------------------------------------
AnyTimeouts == {<<5>>}

NextAny ==
  \/ \E p \in Procs : \E t \in AnyTimeouts : AcqCall(p, t)
  \/ \E p \in Procs : Cas(p)
  \/ \E p \in Procs : Chk(p)
  \/ \E p \in Procs : RelCall(p)
  \/ \E p \in Procs : RelStore(p)
  \/ \E p \in Procs : IsLocked(p)
  \/ \E p \in Procs : Close(p)

SpecAny == InitHandles /\ [][NextAny]_vars

\* C8: whatever acquire, release, is_locked and close calls are made, the
\* flag byte is 0 or 1.
C8_FlagDomain == \A i \in Offsets : mem[i] \in {0, 1}

\* The flag is 1 after a release by a non-holder made two processes holders,
\* one of which then called close; a third process's acquire timed out.
C8_Witness ==
  \E p \in Procs : \E q \in Procs \ {p} : \E r \in Procs \ {p, q} :
    /\ holds[p] /\ last[p] = "close"
    /\ holds[q] /\ last[q] = "is_locked" /\ ret[q] = "true"
    /\ last[r] = "acquire" /\ ret[r] = "false"
    /\ mem[0] = 1

\* C10: the store of release() leaves the flag 0 whoever calls it, holder
\* or not.
C10_ReleaseUnchecked ==
  [][\A p \in Procs :
       (pc[p] = "rel" /\ pc'[p] = "ready") => mem'[offset[p]] = 0]_vars

\* Two processes hold the flag at once, a third having called release
\* without holding it.
C10_Witness ==
  \E p \in Procs : \E q \in Procs \ {p} : \E r \in Procs \ {p, q} :
    /\ holds[p] /\ holds[r] /\ mem[0] = 1
    /\ ~holds[q] /\ last[q] = "release" /\ pc[q] = "ready"

\* ---------------------------------------------------------------------
\* SpecAbandon: the region does not exist at first.  Processes construct
\* IPCSpinLock handles, acquire, release, close their handle and exit, in
\* any order and at any point of one another's constructors.
\* ---------------------------------------------------------------------
AbandonTimeouts == {<<5>>}

\* the flag at offset k is held by a process that exited, or that called
\* close() last, without releasing
AbandonedAt(k) ==
  \E p \in Procs :
    /\ holds[p] /\ offset[p] = k
    /\ pc[p] = "dead" \/ (pc[p] = "ready" /\ last[p] = "close")

NextAbandon ==
  \/ \E p \in Procs : EnsureOpen(p, "IPCSpinLock", 0, TRUE)
  \/ \E p \in Procs : EnsureFstat(p)
  \/ \E p \in Procs : EnsureTruncate(p)
  \/ \E p \in Procs : EnsureWrite(p)
  \/ \E p \in Procs : OpenMmap(p)
  \/ \E p \in Procs : \E t \in AbandonTimeouts : AcqCall(p, t)
  \/ \E p \in Procs : Cas(p)
  \/ \E p \in Procs : Chk(p)
  \/ \E p \in Procs : RelCall(p)
  \/ \E p \in Procs : RelStore(p)
  \/ \E p \in Procs : Close(p)
  \/ \E p \in Procs : Terminate(p)

SpecAbandon == InitAbsent /\ [][NextAbandon]_vars

\* C9: while a flag is 1 and abandoned (its holder exited or closed without
\* releasing), every step that is not the store of a release() leaves it 1,
\* and no acquire on it returns True.
C9_AbandonedStaysLocked ==
  [][\A k \in Offsets :
       (/\ AbandonedAt(k) /\ mem[k] = 1
        /\ ~(\E q \in Procs : pc[q] = "rel" /\ pc'[q] = "ready"))
         => /\ mem'[k] = 1
            /\ \A q \in Procs :
                 (pc[q] = "cas" /\ offset[q] = k) => ret'[q] # "true"]_vars

\* ---------------------------------------------------------------------
\* close() and is_locked(), checked under SpecAny
\* ---------------------------------------------------------------------

\* a call of close() by p returns in this step
CloseReturns(p) ==
  last'[p] = "close" /\ (last[p] # "close" \/ again'[p] # again[p])

\* C11: no call of close() raises, and a close() made right after a close()
\* changes neither the handle (its mapping, its exports, its position, what
\* it holds) nor the region; later ones are stuttering steps.
C11_IdempotentClose ==
  [][\A p \in Procs :
       CloseReturns(p) =>
         /\ ret'[p] = "none"
         /\ last[p] = "close" =>
              /\ mmOpen'[p] = mmOpen[p] /\ exports'[p] = exports[p]
              /\ pc'[p] = pc[p] /\ holds'[p] = holds[p]
              /\ region' = region]_vars

\* One handle was closed twice in a row while it holds the flag, another
\* twice in a row on a flag it does not hold.
C11_Witness ==
  \E p \in Procs : \E q \in Procs \ {p} :
    /\ last[p] = "close" /\ again[p] /\ ret[p] = "none" /\ holds[p]
    /\ last[q] = "close" /\ again[q] /\ ret[q] = "none" /\ ~holds[q]
    /\ mem[0] = 1

\* a call of is_locked() by p returns in this step
IsLockedReturns(p) ==
  last'[p] = "is_locked" /\ (last[p] # "is_locked" \/ ret'[p] # ret[p])

\* C12: is_locked() returns True exactly when the flag byte at its offset
\* is non-zero, raises nothing and leaves the region as it was.
C12_IsLockedReadsFlag ==
  [][\A p \in Procs :
       IsLockedReturns(p) =>
         /\ ret'[p] = (IF mem[offset[p]] # 0 THEN "true" ELSE "false")
         /\ region' = region]_vars

\* Quiescent, after p acquired: is_locked() returned True on p's handle and
\* on q's, and earlier False on r's, whose acquire then timed out.
C12_Witness ==
  \E p \in Procs : \E q \in Procs \ {p} :
    /\ \A r \in Procs : pc[r] = "ready"
    /\ holds[p] /\ last[p] = "is_locked" /\ ret[p] = "true"
    /\ ~holds[q] /\ last[q] = "is_locked" /\ ret[q] = "true"
    /\ mem[0] = 1

\* ---------------------------------------------------------------------
\* acquire without a timeout, checked under Spec
\* ---------------------------------------------------------------------

\* C13: acquire(timeout=None) never returns False; it returns only from its
\* compare-and-swap, which found the flag 0 and set it to 1, so it does not
\* return for as long as the flag stays 1.
C13_NoTimeoutNeverFalse ==
  /\ [][\A p \in Procs :
          (Waiting(p) /\ timeout[p] = None /\ pc'[p] # pc[p] /\ ~Waiting(p)') =>
            /\ pc[p] = "cas" /\ mem[offset[p]] = 0 /\ mem'[offset[p]] = 1
            /\ ret'[p] = "true" /\ holds'[p]]_vars
  /\ [](\A p \in Procs :
          (last[p] = "acquire" /\ timeout[p] = None) => ret[p] # "false")

\* q has been in acquire(None) up to the end of the clock while p, whose
\* acquire(None) returned True, holds the flag.
C13_Witness ==
  \E p \in Procs : \E q \in Procs \ {p} :
    /\ holds[p] /\ last[p] = "acquire" /\ ret[p] = "true" /\ timeout[p] = None
    /\ Waiting(q) /\ timeout[q] = None /\ elapsed[q] = ClockCap

\* ---------------------------------------------------------------------
\* SpecOffsets: the region is MaxOffset + 1 bytes long and the processes of
\* CtorProcs hold ShmLock handles on it, each at an offset of its own
\* choice; they call acquire, release, is_locked and close in any order.
\* ---------------------------------------------------------------------
OffsetTimeouts == {<<5>>}

InitOffsets ==
  /\ InitLocals
  /\ pid = [p \in Procs |-> p]
  /\ exists = TRUE
  /\ len = MaxOffset + 1
  /\ mem = [i \in Offsets |-> 0]
  /\ kind = [p \in Procs |-> IF p \in CtorProcs THEN "ShmLock" ELSE "none"]
  /\ offset \in [Procs -> Offsets]
  /\ \A p \in Procs \ CtorProcs : offset[p] = 0
  /\ create = [p \in Procs |-> TRUE]
  /\ pc = [p \in Procs |-> IF p \in CtorProcs THEN "ready" ELSE "new"]
  /\ mmOpen = [p \in Procs |-> p \in CtorProcs]
  /\ exports = [p \in Procs |-> IF p \in CtorProcs THEN 1 ELSE 0]

NextOffsets ==
  \/ \E p \in Procs : \E t \in OffsetTimeouts : AcqCall(p, t)
  \/ \E p \in Procs : Cas(p)
  \/ \E p \in Procs : Chk(p)
  \/ \E p \in Procs : RelCall(p)
  \/ \E p \in Procs : RelStore(p)
  \/ \E p \in Procs : IsLocked(p)
  \/ \E p \in Procs : Close(p)

SpecOffsets == InitOffsets /\ [][NextOffsets]_vars

\* C14: a byte of the region changes only in a compare-and-swap or a store
\* of a handle placed at that very offset, the region keeps its length, and
\* a compare-and-swap on a flag that is 0 succeeds whatever the other flags
\* are.
C14_OnlyFlagByte ==
  [][/\ \A i \in Offsets :
          mem'[i] # mem[i] =>
            \E p \in Procs :
              offset[p] = i /\ pc[p] \in {"cas", "rel"} /\ pc'[p] # pc[p]
     /\ exists' = exists /\ len' = len
     /\ \A p \in Procs :
          (pc[p] = "cas" /\ pc'[p] # "cas" /\ mem[offset[p]] = 0) =>
            ret'[p] = "true" /\ holds'[p]]_vars

\* p and q hold the flags at two different offsets at the same time, p
\* having then called close() and q is_locked().
C14_Witness ==
  \E p \in Procs : \E q \in Procs \ {p} :
    /\ offset[p] # offset[q]
    /\ holds[p] /\ mem[offset[p]] = 1 /\ last[p] = "close"
    /\ holds[q] /\ mem[offset[q]] = 1 /\ last[q] = "is_locked"
    /\ ret[q] = "true"

\* ---------------------------------------------------------------------
\* concurrent ShmLock constructors, checked under SpecShm
\* ---------------------------------------------------------------------

\* C15: no step makes the region shorter, and no step of a constructor
\* changes a byte the region already had; so a flag byte that is mapped and
\* 1 stays in the region and stays 1 through every construction.
C15_GrowthOnly ==
  [][/\ len' >= len
     /\ \A p \in Procs :
          (pc[p] \in {"new", "fstat", "trunc", "map"} /\ pc'[p] # pc[p]) =>
            /\ \A i \in Offsets : i < len => mem'[i] = mem[i]
            /\ \A q \in Procs :
                 (holds[q] /\ mem[offset[q]] = 1) =>
                   (offset[q] < len' /\ mem'[offset[q]] = 1)]_vars

\* ---------------------------------------------------------------------
\* SpecStarve: the executions of FairSpec picked by a scheduler that runs
\* the compare-and-swap of one process, the victim, only at moments when
\* the flag is 1.  Every process calls acquire(None); the others release
\* what they acquire and call acquire again.
\* ---------------------------------------------------------------------
Victim == NumProcs
Others == Procs \ {Victim}

VictimCas == mem[Ptr(Victim)] = 1 /\ Cas(Victim)

NextStarve ==
  \/ AcqCall(Victim, None)
  \/ VictimCas
  \/ Chk(Victim)
  \/ \E p \in Others : ~holds[p] /\ AcqCall(p, None)
  \/ \E p \in Others : Cas(p)
  \/ \E p \in Others : Chk(p)
  \/ \E p \in Others : holds[p] /\ RelCall(p)
  \/ \E p \in Others : RelStore(p)

SpecStarve ==
  /\ InitHandles /\ [][NextStarve]_vars
  /\ WF_vars(AcqCall(Victim, None)) /\ SF_vars(VictimCas) /\ WF_vars(Chk(Victim))
  /\ \A p \in Others :
       /\ WF_vars(~holds[p] /\ AcqCall(p, None))
       /\ WF_vars(AcquireStep(p)) /\ WF_vars(ReleaseStep(p))

\* C16: every execution of SpecStarve is an execution of the program that
\* is weakly fair to every process (FairSpec); in it the victim ends up in
\* acquire(None) forever, attempting its compare-and-swap again and again,
\* and never acquires, while every holder releases and the other
\* contenders acquire again and again.
C16_Starvation ==
  /\ FairSpec
  /\ [](~holds[Victim])
  /\ <>[](Waiting(Victim) /\ timeout[Victim] = None)
  /\ []<>(pc[Victim] = "chk")
  /\ \A p \in Others : holds[p] ~> ~holds[p]
  /\ []<>(\E p \in Others : holds[p])

\* The victim has been in acquire(None) up to the end of the clock; one of
\* the others holds the flag, after another held and released it.
C16_Witness ==
  \E p \in Others : \E q \in Others \ {p} :
    /\ Waiting(Victim) /\ timeout[Victim] = None /\ elapsed[Victim] = ClockCap
    /\ holds[p] /\ mem[0] = 1
    /\ last[q] = "release" /\ pc[q] = "ready" /\ ~holds[q]

\* ---------------------------------------------------------------------
\* the sleeps of one acquire call, checked under FairHeld
\* ---------------------------------------------------------------------

\* C17: the first sleep of a call lasts InitialBackoff, each later one at
\* least as long as the one before, and none longer than MaxBackoff.
C17_BackoffPolicy ==
  [][\A p \in Procs :
       (pc[p] = "chk" /\ pc'[p] = "cas") =>
         /\ slept[p] = 0 => slept'[p] = InitialBackoff
         /\ slept'[p] >= slept[p]
         /\ slept'[p] <= MaxBackoff]_vars

\* ---------------------------------------------------------------------
\* what close() does to the mapping, checked under SpecAny
\* ---------------------------------------------------------------------

\* C18: when close() returns, the handle's mmap is closed.
C18_CloseUnmaps ==
  [][\A p \in Procs : CloseReturns(p) => ~mmOpen'[p]]_vars

\* ---------------------------------------------------------------------
\* SpecTry: every process holds a handle on the same flag, which is free at
\* first, and calls acquire without a timeout or with the timeout 0 or -1;
\* the process that acquires keeps the flag.
\* ---------------------------------------------------------------------
TryTimeouts == {None, <<0>>, <<-1>>}

NextTry ==
  \/ \E p \in Procs : \E t \in TryTimeouts : ~holds[p] /\ AcqCall(p, t)
  \/ \E p \in Procs : Cas(p)
  \/ \E p \in Procs : Chk(p)

SpecTry == InitHandles /\ [][NextTry]_vars

\* C19: a compare-and-swap that finds the flag 0 makes acquire return True
\* at once, whatever the timeout; when it is the first of the call, nothing
\* was slept.  acquire returns False only from its timeout test, which it
\* reaches only from a compare-and-swap that found the flag set and wrote
\* nothing.
C19_TryLock ==
  [][\A p \in Procs :
       /\ (pc[p] = "cas" /\ pc'[p] # "cas" /\ mem[offset[p]] = 0) =>
            /\ pc'[p] = "ready" /\ ret'[p] = "true" /\ holds'[p]
            /\ sleptAt[p] = 0 => elapsed[p] = 0 /\ slept[p] = 0
       /\ (ret'[p] = "false" /\ ret[p] # "false") => pc[p] = "chk"
       /\ (pc'[p] = "chk" /\ pc[p] # "chk") =>
            pc[p] = "cas" /\ mem[offset[p]] # 0 /\ mem' = mem]_vars

\* p's acquire(-1) found the flag free and returned True; q's acquire(0)
\* then returned False; r is in acquire(None).
C19_Witness ==
  \E p \in Procs : \E q \in Procs \ {p} : \E r \in Procs \ {p, q} :
    /\ holds[p] /\ ret[p] = "true" /\ timeout[p] = <<-1>>
    /\ pc[q] = "ready" /\ last[q] = "acquire" /\ ret[q] = "false"
    /\ timeout[q] = <<0>>
    /\ Waiting(r) /\ timeout[r] = None

\* ---------------------------------------------------------------------
\* an acquire that times out, checked under Spec
\* ---------------------------------------------------------------------

\* C20: a compare-and-swap that fails, the timeout test and the sleep
\* change neither the region nor who holds the flag, and a call that
\* returns False leaves its caller not holding.
C20_FailedAcquireNoEffect ==
  [][\A p \in Procs :
       /\ (pc[p] = "cas" /\ pc'[p] = "chk") =>
            region' = region /\ holds' = holds
       /\ (pc[p] = "chk" /\ pc'[p] # "chk") =>
            region' = region /\ holds' = holds
       /\ (pc[p] = "chk" /\ pc'[p] = "ready") =>
            ret'[p] = "false" /\ ~holds'[p]]_vars

\* q's acquire(5 us) has returned False; p, which held the flag throughout,
\* still holds it and the flag is 1.
C20_Witness ==
  \E p \in Procs : \E q \in Procs \ {p} :
    /\ holds[p] /\ mem[0] = 1 /\ last[p] = "acquire"
    /\ pc[q] = "ready" /\ last[q] = "acquire" /\ ret[q] = "false"
    /\ timeout[q] = <<5>> /\ ~holds[q]

====
